---- MODULE Spec2Model ----
(***************************************************************************)
(* The authentication controller of the turf-booking API server            *)
(* (register, login, adminLogin, logout, getMe, forgotPassword,            *)
(* verifyEmail, resendVerificationEmail) as a state machine.               *)
(*                                                                         *)
(* Every handler is an async function: it runs synchronously up to its     *)
(* first await, and each await is a point where other requests may run.    *)
(* One action models one such synchronous stretch: the completion of the   *)
(* awaited operation (its effect on the store) together with the code      *)
(* that follows it up to the next await or up to the response.             *)
(*                                                                         *)
(* Strings are sequences of one-character strings, so that trimming and    *)
(* lower-casing are real conversions.                                      *)
(***************************************************************************)
EXTENDS Integers, Sequences, FiniteSets, TLC

VARIABLES
    users,        \* the User collection: a sequence of documents, _id = index
    tokens,       \* the Token collection (password-reset tokens): a set of documents
    adminGrants,  \* user ids holding the admin dashboard permission
    now,          \* the clock read by new Date()
    nextTok,      \* next fresh random value (verification / reset tokens, Token _id)
    nextReq,      \* number of requests received so far
    budget,       \* number of requests the clients send in this behaviour
    inflight,     \* the requests being handled: the local state of each handler
    responses     \* every response sent so far

vars == <<users, tokens, adminGrants, now, nextTok, nextReq, budget, inflight, responses>>

-----------------------------------------------------------------------------
(* Bounds of the model *)

MaxInFlight == 2   \* requests that can be in flight at once
MaxRequests == 2   \* requests received in one behaviour of Spec
MaxRegister == 2   \* ... of SpecRegister
MaxLogin == 3      \* ... of SpecLogin
MaxAdminLogin == 2 \* ... of SpecAdminLogin
MaxLogout == 3     \* ... of SpecLogout
MaxSession == 2    \* ... of SpecSession
MaxVerify == 3     \* ... of SpecVerify
MaxForgot == 3     \* ... of SpecForgot
MaxPersist == 3    \* ... of SpecPersist
MaxRoutes == 2     \* ... of SpecRoutes
MaxLifecycle == 2  \* ... of SpecLifecycle
MaxTime == 2       \* last value of the clock

-----------------------------------------------------------------------------
(* Strings *)

IsSpace(c) == c = " "

\* String.prototype.toLowerCase, one character
ToLowerChar(c) ==
    CASE c = "A" -> "a"
      [] c = "B" -> "b"
      [] OTHER -> c

toLowerCase(s) == [i \in 1..Len(s) |-> ToLowerChar(s[i])]

RECURSIVE LTrim(_)
LTrim(s) == IF s # <<>> /\ IsSpace(Head(s)) THEN LTrim(Tail(s)) ELSE s

RECURSIVE RTrim(_)
RTrim(s) ==
    IF s # <<>> /\ IsSpace(s[Len(s)]) THEN RTrim(SubSeq(s, 1, Len(s) - 1)) ELSE s

\* validator.trim(s): whitespace removed from both ends
trim(s) == RTrim(LTrim(s))

\* validator.isEmail on the strings of the model: one "@", a non-empty local
\* part, a domain with an inner ".", no whitespace.
isEmail(s) ==
    /\ \A i \in 1..Len(s) : ~IsSpace(s[i])
    /\ Cardinality({i \in 1..Len(s) : s[i] = "@"}) = 1
    /\ LET at == CHOOSE i \in 1..Len(s) : s[i] = "@"
       IN  /\ at > 1
           /\ \E d \in (at + 2)..(Len(s) - 1) : s[d] = "."
           /\ \A d \in (at + 1)..Len(s) : s[d] = "." => (d > at + 1 /\ d < Len(s))

\* Equality of two strings under the collation { locale: "en", strength: 2 }:
\* base letters are compared, letter case is ignored.
CollationEqual(a, b) ==
    /\ Len(a) = Len(b)
    /\ \A i \in 1..Len(a) : ToLowerChar(a[i]) = ToLowerChar(b[i])

-----------------------------------------------------------------------------
(* Request inputs *)

Undefined == 0

EmailA == <<"a", "@", "t", ".", "c">>

EmailAUpper == <<"A", "@", "t", ".", "c">>

EmailAPadded == <<" ", "A", "@", "t", ".", "c">>

EmailB == <<"b", "@", "t", ".", "c">>

Malformed == <<"a", "t">>

\* req.body of resendVerificationEmail: the email
EmailInputs == { EmailA, EmailAUpper, Malformed, <<>> }

\* req.body of forgotPassword: the email
ForgotEmailInputs == { EmailA, EmailAUpper, <<>> }

RegisterBody(first_name, email, password, role) ==
    [ first_name |-> first_name, last_name |-> <<"L">>, email |-> email,
      password |-> password, role |-> role ]

\* req.body of register; role is absent ("undefined") or what the client chose
RegisterBodies ==
    { RegisterBody(<<"F">>, EmailA, <<"p">>, "undefined"),
      RegisterBody(<<"F">>, EmailAPadded, <<"p">>, "admin"),
      RegisterBody(<<"F">>, EmailB, <<"p", " ">>, "undefined"),
      RegisterBody(<<" ">>, EmailA, <<"p">>, "undefined"),
      RegisterBody(<<"F">>, Malformed, <<"p">>, "undefined") }

LoginBody(email, password) == [ email |-> email, password |-> password ]

\* req.body of login and adminLogin
LoginBodies ==
    { LoginBody(EmailA, <<"p">>),
      LoginBody(EmailAPadded, <<" ", "p">>),
      LoginBody(EmailA, <<"q">>),
      LoginBody(EmailB, <<"p">>),
      LoginBody(EmailA, <<" ">>),
      LoginBody(Malformed, <<"p">>) }

CookieNames == {"token", "admin_token", "org_token"}

-----------------------------------------------------------------------------
(* The credential store *)

\* Lifetime of a verification token, in clock ticks
VerificationTTL == 1

\* The pre-save hook of the User model: the stored password is a hash
Hash(password) == <<"#">> \o password

\* bcrypt's compare of a candidate password with the stored hash
matchPassword(password, user) == Hash(password) = user.password

NoUser ==
    [ _id |-> 0, first_name |-> <<>>, last_name |-> <<>>, email |-> <<>>,
      password |-> <<>>, role |-> "", isVerified |-> FALSE,
      verificationToken |-> Undefined, verificationTokenExpires |-> Undefined ]

NoToken == [ _id |-> 0, userId |-> 0, token |-> 0 ]

\* Fields a document leaves out of toObject() / JSON while they are undefined
OptionalFields == {"verificationToken", "verificationTokenExpires"}

\* doc.toObject(): the document's fields as a plain object, a set of
\* <<name, value>> pairs
toObject(doc) ==
    { <<f, doc[f]>> : f \in { g \in DOMAIN doc :
                               g \in OptionalFields => doc[g] # Undefined } }

\* delete obj[field]
Delete(obj, field) == { p \in obj : p[1] # field }

\* Query.select("-a -b ..."): the document without the named fields
SelectWithout(doc, fields) == { p \in toObject(doc) : p[1] \notin fields }

First(S) == CHOOSE i \in S : \A j \in S : i <= j

\* User.findOne({ email }).collation({ locale: "en", strength: 2 })
FindOneCollation(email) ==
    LET S == { i \in 1..Len(users) : CollationEqual(users[i].email, email) }
    IN  IF S = {} THEN NoUser ELSE users[First(S)]

\* User.findOne({ email }): exact match
FindOneExact(email) ==
    LET S == { i \in 1..Len(users) : users[i].email = email }
    IN  IF S = {} THEN NoUser ELSE users[First(S)]

\* User.findById(id)
FindById(id) == IF id \in 1..Len(users) THEN users[id] ELSE NoUser

\* Token.findOne({ userId })
TokenFindOne(userId) ==
    LET S == { t \in tokens : t.userId = userId }
    IN  IF S = {} THEN NoToken
        ELSE CHOOSE t \in S : \A o \in S : t._id <= o._id

\* The unique index on User.email: a document whose email is already stored is
\* refused. The index compares the stored strings; register lower-cases every
\* email it stores.
DuplicateKey(email) == \E i \in 1..Len(users) : users[i].email = email

\* The document User.create builds: schema defaults, password hashed on save
NewUser(id, first_name, last_name, email, password, role) ==
    [ _id |-> id, first_name |-> first_name, last_name |-> last_name,
      email |-> email, password |-> Hash(password), role |-> role,
      isVerified |-> FALSE,
      verificationToken |-> Undefined, verificationTokenExpires |-> Undefined ]

-----------------------------------------------------------------------------
(* Requests and responses *)

NoWrites == [ create |-> "none", save |-> "none", delete |-> "none", issue |-> "none" ]

\* The local state of a handler; dup, matched, access and cause record what the
\* request met, for the properties below.
NoReq ==
    [ op |-> "", pc |-> "", rid |-> 0,
      first_name |-> <<>>, last_name |-> <<>>, email |-> <<>>, password |-> <<>>,
      role |-> "", token |-> 0, id |-> 0, cookies |-> {}, orgId |-> 0,
      user |-> NoUser, resetToken |-> NoToken, wr |-> NoWrites,
      dup |-> FALSE, wasVerified |-> FALSE, matched |-> FALSE, access |-> "",
      cause |-> "",
      method |-> "", path |-> <<>>, session |-> "", chain |-> <<>>,
      authenticated |-> FALSE ]

NewReq(op) == [NoReq EXCEPT !.op = op, !.rid = nextReq + 1]

\* A request arrives
Receive ==
    /\ Cardinality(inflight) < MaxInFlight
    /\ nextReq < budget
    /\ nextReq' = nextReq + 1
    /\ UNCHANGED budget

\* A handler in flight runs on
Resume == UNCHANGED <<nextReq, budget>>

\* res.status(status).json(...) with the cookies set before it; the handler ends
Respond(r, r2, status, message, detail, cookies, data) ==
    /\ responses' = responses \cup
          { [ rid |-> r2.rid, op |-> r2.op, status |-> status, message |-> message,
              detail |-> detail, cookies |-> cookies, data |-> data, req |-> r2 ] }
    /\ inflight' = inflight \ {r}

\* next(new ErrorResponse(message, status)): the central error handler answers
\* with the status and the message, sets no cookie and sends no data
ErrorResponse(r, r2, message, detail, status) ==
    Respond(r, r2, status, message, detail, {}, {})

\* asyncHandler: a rejected await the handler does not catch goes to next(err)
Uncaught(r, r2) == ErrorResponse(r, r2, "Server Error", "", 500)

\* The handler suspends at its next await
Await(r, r2, pc) ==
    /\ inflight' = (inflight \ {r}) \cup {[r2 EXCEPT !.pc = pc]}
    /\ UNCHANGED responses

\* A handler that goes on although the write was rejected
AfterWrite_Swallowed(ok, pc) == pc

\* Where a handler goes when an awaited write settles
AfterWrite(ok, pc) == IF ok THEN pc ELSE "rejected"

-----------------------------------------------------------------------------
(* authService.sendVerificationEmail(user): a fresh token and its expiry are
   saved on the user, then the mail with token and id is sent. *)

SendOutcomes == {"sent", "save_failed", "mail_failed"}

sendVerificationEmail(uid, outcome) ==
    /\ nextTok' = nextTok + 1
    /\ users' = IF outcome = "save_failed" THEN users
                ELSE [users EXCEPT ![uid].verificationToken = nextTok,
                                   ![uid].verificationTokenExpires = now + VerificationTTL]

-----------------------------------------------------------------------------
(* register *)

\* The normalisation without toLowerCase
NormalizeEmail_CaseKept(email) == trim(email)

NormalizeEmail(email) == toLowerCase(trim(email))

register ==
    /\ Receive
    /\ \E body \in RegisterBodies :
         LET first_name == trim(body.first_name)
             last_name == trim(body.last_name)
             email == NormalizeEmail(body.email)
             password == trim(body.password)
             r == [NewReq("register") EXCEPT
                      !.first_name = first_name, !.last_name = last_name,
                      !.email = email, !.password = password, !.role = body.role,
                      !.dup = \E i \in 1..Len(users) :
                                 CollationEqual(users[i].email, trim(body.email))]
         IN  IF first_name = <<>> \/ last_name = <<>> \/ email = <<>> \/ password = <<>>
             THEN ErrorResponse(r, r, "All fields are required", "", 400)
             ELSE IF ~isEmail(email)
             THEN ErrorResponse(r, r, "Invalid email format", "", 400)
             ELSE Await(r, r, "register_findOne")
    /\ UNCHANGED <<users, tokens, adminGrants, now, nextTok>>

\* register without the existence lookup
register_existingUser_Skipped(email) == NoUser

\* The result of the existence lookup of register
register_existingUser(email) == FindOneCollation(email)

register_findOne ==
    /\ Resume
    /\ \E r \in inflight :
         /\ r.pc = "register_findOne"
         /\ LET existingUser == register_existingUser(r.email)
            IN  IF existingUser._id # 0
                THEN ErrorResponse(r, r, "Email already registered", "", 400)
                ELSE Await(r, [r EXCEPT !.wr.create = "pending"], "register_create")
    /\ UNCHANGED <<users, tokens, adminGrants, now, nextTok>>

\* role: role ?? "user"
register_role(role) == IF role = "undefined" THEN "user" ELSE role

register_create ==
    /\ Resume
    /\ \E r \in inflight, dbOk \in BOOLEAN :
         /\ r.pc = "register_create"
         /\ LET ok == dbOk /\ ~DuplicateKey(r.email)
                user == NewUser(Len(users) + 1, r.first_name, r.last_name, r.email,
                                r.password, register_role(r.role))
                r2 == [r EXCEPT !.wr.create = IF ok THEN "done" ELSE "failed",
                                !.user = IF ok THEN user ELSE NoUser,
                                !.cause = IF ok THEN ""
                                          ELSE IF dbOk THEN "duplicate_key" ELSE "db_error"]
            IN  /\ users' = IF ok THEN Append(users, user) ELSE users
                /\ IF AfterWrite(ok, "register_sendVerificationEmail") = "rejected"
                   THEN Uncaught(r, r2)
                   ELSE Await(r, r2, "register_sendVerificationEmail")
    /\ UNCHANGED <<tokens, adminGrants, now, nextTok>>

\* The answer carries the document as User.create returned it; whether
\* sendVerificationEmail also sets the token on that object is not visible in
\* the controller, and the answer is modelled without it.
register_sendVerificationEmail ==
    /\ Resume
    /\ \E r \in inflight, outcome \in SendOutcomes :
         /\ r.pc = "register_sendVerificationEmail"
         /\ LET r2 == [r EXCEPT !.wr.issue =
                          IF outcome = "save_failed" THEN "failed" ELSE "done"]
            IN  /\ sendVerificationEmail(r.user._id, outcome)
                /\ IF outcome = "sent"
                   THEN Respond(r, r2, 201,
                                "Registration successful! Please check your email to verify your account.",
                                "", {}, Delete(toObject(r.user), "password"))
                   ELSE Uncaught(r, r2)
    /\ UNCHANGED <<tokens, adminGrants, now>>

-----------------------------------------------------------------------------
(* Session cookies *)

\* authService.generateToken(user): a signed token that encodes the user id
generateToken(user) == <<"jwt", user._id>>

\* res.cookie(name, value, options)
Cookie(name, value, expires, sameSite) ==
    [ name |-> name, value |-> value, expires |-> expires, sameSite |-> sameSite ]

\* authService.checkAdminAccess(userId): the permission lookup; it may reject
AccessOutcomes == {"granted", "denied", "error"}

checkAdminAccess(userId, outcome) ==
    \/ outcome = "error"
    \/ outcome = "granted" /\ userId \in adminGrants
    \/ outcome = "denied" /\ userId \notin adminGrants

\* The admin dashboard assigns a global role to a user
handleAssignRole ==
    /\ \E uid \in 1..Len(users) :
         /\ uid \notin adminGrants
         /\ adminGrants' = adminGrants \cup {uid}
    /\ UNCHANGED <<users, tokens, now, nextTok, nextReq, budget, inflight, responses>>

-----------------------------------------------------------------------------
(* login *)

\* An answer that tells an unknown email from a wrong password
login_noUser_Distinct == [ message |-> "User not found", status |-> 404 ]

\* The answer of login when no user has the email
login_noUser == [ message |-> "Invalid credentials", status |-> 401 ]

\* The answer of login when the password does not match
login_notMatched == [ message |-> "Invalid credentials", status |-> 401 ]

\* The validation that login and adminLogin share
LoginStart(op, pc) ==
    /\ Receive
    /\ \E body \in LoginBodies :
         LET email == NormalizeEmail(body.email)
             password == trim(body.password)
             r == [NewReq(op) EXCEPT !.email = email, !.password = password]
         IN  IF email = <<>> \/ password = <<>>
             THEN ErrorResponse(r, r, "Please provide an email and password", "", 400)
             ELSE IF ~isEmail(email)
             THEN ErrorResponse(r, r, "Invalid email format", "", 400)
             ELSE Await(r, r, pc)
    /\ UNCHANGED <<users, tokens, adminGrants, now, nextTok>>

login == LoginStart("login", "login_findOne")

login_findOne ==
    /\ Resume
    /\ \E r \in inflight :
         /\ r.pc = "login_findOne"
         /\ LET user == FindOneCollation(r.email)
            IN  IF user._id = 0
                THEN ErrorResponse(r, [r EXCEPT !.cause = "no_user"],
                                   login_noUser.message, "", login_noUser.status)
                ELSE Await(r, [r EXCEPT !.user = user], "login_matchPassword")
    /\ UNCHANGED <<users, tokens, adminGrants, now, nextTok>>

login_matchPassword ==
    /\ Resume
    /\ \E r \in inflight :
         /\ r.pc = "login_matchPassword"
         /\ LET isMatched == matchPassword(r.password, r.user)
                token == generateToken(r.user)
                userWithoutPassword == Delete(toObject(r.user), "password")
            IN  IF ~isMatched
                THEN ErrorResponse(r, [r EXCEPT !.cause = "bad_password"],
                                   login_notMatched.message, "", login_notMatched.status)
                ELSE Respond(r, [r EXCEPT !.matched = TRUE], 200, "", "",
                             { Cookie("token", token, "30d", "none") },
                             userWithoutPassword \cup { <<"token", token>> })
    /\ UNCHANGED <<users, tokens, adminGrants, now, nextTok>>

-----------------------------------------------------------------------------
(* adminLogin *)

adminLogin == LoginStart("adminLogin", "adminLogin_findOne")

adminLogin_findOne ==
    /\ Resume
    /\ \E r \in inflight :
         /\ r.pc = "adminLogin_findOne"
         /\ LET user == FindOneCollation(r.email)
            IN  IF user._id = 0
                THEN ErrorResponse(r, [r EXCEPT !.cause = "no_user"],
                                   "Invalid credentials", "", 401)
                ELSE Await(r, [r EXCEPT !.user = user], "adminLogin_matchPassword")
    /\ UNCHANGED <<users, tokens, adminGrants, now, nextTok>>

adminLogin_matchPassword ==
    /\ Resume
    /\ \E r \in inflight :
         /\ r.pc = "adminLogin_matchPassword"
         /\ LET isMatched == matchPassword(r.password, r.user)
            IN  IF ~isMatched
                THEN ErrorResponse(r, [r EXCEPT !.cause = "bad_password"],
                                   "Invalid credentials", "", 401)
                ELSE Await(r, [r EXCEPT !.matched = TRUE], "adminLogin_checkAdminAccess")
    /\ UNCHANGED <<users, tokens, adminGrants, now, nextTok>>

\* adminLogin that lets every settled permission check through
adminLogin_hasAdminAccess_Ignored(outcome) == outcome # "error"

\* if (!hasAdminAccess): does the permission check let the login through
adminLogin_hasAdminAccess(outcome) == outcome = "granted"

\* The cookies adminLogin sets after the permission check
adminLogin_cookies(token) ==
    { Cookie("admin_token", token, "30d", "lax"), Cookie("token", token, "30d", "lax") }

adminLogin_checkAdminAccess ==
    /\ Resume
    /\ \E r \in inflight, outcome \in AccessOutcomes :
         /\ r.pc = "adminLogin_checkAdminAccess"
         /\ checkAdminAccess(r.user._id, outcome)
         /\ LET r2 == [r EXCEPT !.access = outcome]
                token == generateToken(r.user)
                userWithoutPassword == Delete(toObject(r.user), "password")
            IN  IF outcome = "error"
                THEN ErrorResponse(r, r2, "Admin access verification failed", "", 500)
                ELSE IF ~adminLogin_hasAdminAccess(outcome)
                THEN ErrorResponse(r, r2, "Unauthorized access to admin dashboard", "", 403)
                ELSE Respond(r, r2, 200, "", "", adminLogin_cookies(token),
                             userWithoutPassword)
    /\ UNCHANGED <<users, tokens, adminGrants, now, nextTok>>

-----------------------------------------------------------------------------
(* logout *)

\* logout that forgets the organization cookie
logout_cookies_NoOrg ==
    { [ name |-> "token", value |-> <<>>, expires |-> "epoch", sameSite |-> "lax" ],
      [ name |-> "admin_token", value |-> <<>>, expires |-> "epoch", sameSite |-> "lax" ] }

\* The cookies logout sets: each session cookie, empty, expired at the epoch
logout_cookies ==
    { Cookie("token", <<>>, "epoch", "lax"),
      Cookie("admin_token", <<>>, "epoch", "lax"),
      Cookie("org_token", <<>>, "epoch", "lax") }

logout ==
    /\ Receive
    /\ \E cookies \in SUBSET CookieNames, id \in 0..Len(users) :
         LET r == [NewReq("logout") EXCEPT !.cookies = cookies, !.id = id]
         IN  Respond(r, r, 200, "Logged out successfully", "", logout_cookies, {})
    /\ UNCHANGED <<users, tokens, adminGrants, now, nextTok>>

-----------------------------------------------------------------------------
(* getMe *)

\* The fields getMe leaves out of its query
getMe_select == {"password", "verificationToken", "verificationTokenExpires"}

\* The handler's way after the user was found and after each access check
getMe_continue(r, r2, stage) ==
    IF stage < 1 /\ "admin_token" \in r2.cookies
    THEN Await(r, r2, "getMe_checkAdminAccess")
    ELSE IF stage < 2 /\ "org_token" \in r2.cookies /\ r2.orgId # 0
    THEN Await(r, r2, "getMe_checkUserRoleInOrganization")
    ELSE Respond(r, r2, 200, "", "", {}, SelectWithout(r2.user, getMe_select))

getMe ==
    /\ Receive
    /\ \E id \in 0..(Len(users) + 1), cookies \in SUBSET {"admin_token", "org_token"},
          orgId \in 0..1 :
         LET r == [NewReq("getMe") EXCEPT !.id = id, !.cookies = cookies, !.orgId = orgId]
         IN  IF id = 0
             THEN ErrorResponse(r, r, "User not authenticated", "", 401)
             ELSE Await(r, r, "getMe_findById")
    /\ UNCHANGED <<users, tokens, adminGrants, now, nextTok>>

getMe_findById ==
    /\ Resume
    /\ \E r \in inflight :
         /\ r.pc = "getMe_findById"
         /\ LET user == FindById(r.id)
            IN  IF user._id = 0
                THEN ErrorResponse(r, r, "User not found", "", 404)
                ELSE getMe_continue(r, [r EXCEPT !.user = user], 0)
    /\ UNCHANGED <<users, tokens, adminGrants, now, nextTok>>

getMe_checkAdminAccess ==
    /\ Resume
    /\ \E r \in inflight, outcome \in AccessOutcomes :
         /\ r.pc = "getMe_checkAdminAccess"
         /\ checkAdminAccess(r.user._id, outcome)
         /\ LET r2 == [r EXCEPT !.access = outcome]
            IN  CASE outcome = "error" ->
                       ErrorResponse(r, r2, "Admin access verification failed", "", 500)
                  [] outcome = "denied" ->
                       ErrorResponse(r, r2, "Not authorized as admin", "", 403)
                  [] outcome = "granted" -> getMe_continue(r, r2, 1)
    /\ UNCHANGED <<users, tokens, adminGrants, now, nextTok>>

\* authService.checkUserRoleInOrganization: the organizations are not part of
\* the model, so each outcome is possible
getMe_checkUserRoleInOrganization ==
    /\ Resume
    /\ \E r \in inflight, outcome \in AccessOutcomes :
         /\ r.pc = "getMe_checkUserRoleInOrganization"
         /\ CASE outcome = "error" ->
                   ErrorResponse(r, r, "Organization access verification failed", "", 403)
              [] outcome = "denied" ->
                   ErrorResponse(r, r, "Not authorized as organization owner", "", 403)
              [] outcome = "granted" -> getMe_continue(r, r, 2)
    /\ UNCHANGED <<users, tokens, adminGrants, now, nextTok>>

-----------------------------------------------------------------------------
(* forgotPassword *)

\* authService.sendPasswordResetEmail(user): a Token document with a fresh token
\* is created for the user, then the mail with token and id is sent. It rejects
\* with the Error of the step that failed, or with a value that is no Error.
ResetOutcomes == {"sent", "create_failed", "mail_refused", "mail_rejected", "non_error"}

\* error.message of the Error sendPasswordResetEmail rejects with
ErrorMessageOf(outcome) ==
    CASE outcome = "create_failed" -> "Token validation failed"
      [] outcome = "mail_refused" -> "connect ECONNREFUSED"
      [] outcome = "mail_rejected" -> "Invalid login"
      [] OTHER -> ""

IsError(outcome) == outcome \in {"create_failed", "mail_refused", "mail_rejected"}

sendPasswordResetEmail(uid, outcome) ==
    /\ nextTok' = nextTok + 1
    /\ tokens' = IF outcome \in {"create_failed", "non_error"} THEN tokens
                 ELSE tokens \cup {[ _id |-> nextTok, userId |-> uid, token |-> nextTok ]}

forgotPassword ==
    /\ Receive
    /\ \E email \in ForgotEmailInputs :
         LET r == [NewReq("forgotPassword") EXCEPT !.email = email]
         IN  IF email = <<>>
             THEN ErrorResponse(r, r, "Please provide an email", "", 400)
             ELSE Await(r, r, "forgotPassword_findUser")
    /\ UNCHANGED <<users, tokens, adminGrants, now, nextTok>>

forgotPassword_findUser ==
    /\ Resume
    /\ \E r \in inflight :
         /\ r.pc = "forgotPassword_findUser"
         /\ LET user == FindOneExact(r.email)
            IN  IF user._id = 0
                THEN ErrorResponse(r, r, "User not found", "", 404)
                ELSE Await(r, [r EXCEPT !.user = user], "forgotPassword_findToken")
    /\ UNCHANGED <<users, tokens, adminGrants, now, nextTok>>

forgotPassword_findToken ==
    /\ Resume
    /\ \E r \in inflight :
         /\ r.pc = "forgotPassword_findToken"
         /\ LET token == TokenFindOne(r.user._id)
            IN  IF token._id # 0
                THEN Await(r, [r EXCEPT !.resetToken = token, !.wr.delete = "pending"],
                           "forgotPassword_deleteOne")
                ELSE Await(r, r, "forgotPassword_sendPasswordResetEmail")
    /\ UNCHANGED <<users, tokens, adminGrants, now, nextTok>>

\* token.deleteOne(): the document with the _id of the one found is removed
forgotPassword_deleteOne ==
    /\ Resume
    /\ \E r \in inflight, ok \in BOOLEAN :
         /\ r.pc = "forgotPassword_deleteOne"
         /\ LET r2 == [r EXCEPT !.wr.delete = IF ok THEN "done" ELSE "failed"]
            IN  /\ tokens' = IF ok THEN { t \in tokens : t._id # r.resetToken._id }
                             ELSE tokens
                /\ IF AfterWrite(ok, "forgotPassword_sendPasswordResetEmail") = "rejected"
                   THEN Uncaught(r, r2)
                   ELSE Await(r, r2, "forgotPassword_sendPasswordResetEmail")
    /\ UNCHANGED <<users, adminGrants, now, nextTok>>

\* The message of the 500 answer when sendPasswordResetEmail rejects
forgotPassword_failureDetail(outcome) ==
    IF IsError(outcome) THEN ErrorMessageOf(outcome) ELSE ""

forgotPassword_sendPasswordResetEmail ==
    /\ Resume
    /\ \E r \in inflight, outcome \in ResetOutcomes :
         /\ r.pc = "forgotPassword_sendPasswordResetEmail"
         /\ sendPasswordResetEmail(r.user._id, outcome)
         /\ LET r2 == [r EXCEPT !.cause = outcome,
                                !.wr.issue = IF outcome \in {"create_failed", "non_error"}
                                             THEN "failed" ELSE "done"]
            IN  IF outcome = "sent"
                THEN Respond(r, r2, 200, "Password reset email sent", "", {}, {})
                ELSE IF IsError(outcome)
                THEN ErrorResponse(r, r2, "Failed to send password reset email: ",
                                   forgotPassword_failureDetail(outcome), 500)
                ELSE ErrorResponse(r, r2,
                                   "An unexpected error occurred while sending reset email",
                                   "", 500)
    /\ UNCHANGED <<users, adminGrants, now>>

-----------------------------------------------------------------------------
(* verifyEmail *)

\* The check of the token and its expiry: TRUE when the link is refused
verifyEmail_refused(user, token) ==
    \/ user.verificationToken # token
    \/ now > user.verificationTokenExpires

\* req.query of verifyEmail: no parameters, or a token (issued or not) and the
\* id of a user (stored or not)
VerifyQueries ==
    { [ token |-> 0, id |-> 0 ] } \cup
    { [ token |-> t, id |-> i ] : t \in 1..nextTok, i \in 1..(Len(users) + 1) }

verifyEmail ==
    /\ Receive
    /\ \E query \in VerifyQueries :
         LET token == query.token
             id == query.id
             r == [NewReq("verifyEmail") EXCEPT
                      !.token = token, !.id = id,
                      !.wasVerified = FindById(id).isVerified]
         IN  IF token = 0 \/ id = 0
             THEN ErrorResponse(r, r, "Invalid verification link", "", 400)
             ELSE Await(r, r, "verifyEmail_findById")
    /\ UNCHANGED <<users, tokens, adminGrants, now, nextTok>>

verifyEmail_findById ==
    /\ Resume
    /\ \E r \in inflight :
         /\ r.pc = "verifyEmail_findById"
         /\ LET user == FindById(r.id)
            IN  IF user._id = 0
                THEN ErrorResponse(r, r, "User not found", "", 404)
                ELSE IF verifyEmail_refused(user, r.token)
                THEN ErrorResponse(r, [r EXCEPT !.user = user],
                                   "Invalid or expired token", "", 400)
                ELSE Await(r, [r EXCEPT !.user = user, !.wr.save = "pending"],
                           "verifyEmail_save")
    /\ UNCHANGED <<users, tokens, adminGrants, now, nextTok>>

\* user.save() after the three assignments: the modified paths are written
verifyEmail_save ==
    /\ Resume
    /\ \E r \in inflight, ok \in BOOLEAN :
         /\ r.pc = "verifyEmail_save"
         /\ LET r2 == [r EXCEPT !.wr.save = IF ok THEN "done" ELSE "failed"]
            IN  /\ users' = IF ok
                            THEN [users EXCEPT ![r.id].isVerified = TRUE,
                                               ![r.id].verificationToken = Undefined,
                                               ![r.id].verificationTokenExpires = Undefined]
                            ELSE users
                /\ IF AfterWrite(ok, "respond") = "rejected"
                   THEN Uncaught(r, r2)
                   ELSE Respond(r, r2, 200, "Email verified successfully!", "", {}, {})
    /\ UNCHANGED <<tokens, adminGrants, now, nextTok>>

-----------------------------------------------------------------------------
(* resendVerificationEmail *)

resendVerificationEmail ==
    /\ Receive
    /\ \E email \in EmailInputs :
         LET r == [NewReq("resendVerificationEmail") EXCEPT
                      !.email = email,
                      !.wasVerified = FindOneCollation(email).isVerified]
         IN  IF email = <<>>
             THEN ErrorResponse(r, r, "Email is required", "", 400)
             ELSE IF ~isEmail(email)
             THEN ErrorResponse(r, r, "Invalid email format", "", 400)
             ELSE Await(r, r, "resendVerificationEmail_findOne")
    /\ UNCHANGED <<users, tokens, adminGrants, now, nextTok>>

\* resendVerificationEmail without the check of the flag
resendVerificationEmail_alreadyVerified_Ignored(user) == FALSE

\* if (user.isVerified)
resendVerificationEmail_alreadyVerified(user) == user.isVerified

resendVerificationEmail_findOne ==
    /\ Resume
    /\ \E r \in inflight :
         /\ r.pc = "resendVerificationEmail_findOne"
         /\ LET user == FindOneCollation(r.email)
            IN  IF user._id = 0
                THEN ErrorResponse(r, r, "User with this email not found", "", 404)
                ELSE IF resendVerificationEmail_alreadyVerified(user)
                THEN ErrorResponse(r, [r EXCEPT !.user = user],
                                   "Email is already verified", "", 400)
                ELSE Await(r, [r EXCEPT !.user = user],
                           "resendVerificationEmail_sendVerificationEmail")
    /\ UNCHANGED <<users, tokens, adminGrants, now, nextTok>>

resendVerificationEmail_sendVerificationEmail ==
    /\ Resume
    /\ \E r \in inflight, outcome \in SendOutcomes :
         /\ r.pc = "resendVerificationEmail_sendVerificationEmail"
         /\ LET r2 == [r EXCEPT !.wr.issue =
                          IF outcome = "save_failed" THEN "failed" ELSE "done"]
            IN  /\ sendVerificationEmail(r.user._id, outcome)
                /\ IF outcome = "sent"
                   THEN Respond(r, r2, 200,
                                "Verification email has been sent. Please check your inbox.",
                                "", {}, {})
                   ELSE Uncaught(r, r2)
    /\ UNCHANGED <<tokens, adminGrants, now>>

-----------------------------------------------------------------------------
(* The users router and the facility router *)

Route(method, path, chain, handler) ==
    [ method |-> method, path |-> path, chain |-> chain, handler |-> handler ]

\* router.get / router.put of the users router, in the order of registration;
\* a path is the sequence of its segments
UserRoutes ==
    << Route("GET", <<"admin">>, <<"protect">>, "getUsersAdmin"),
       Route("GET", <<":userId", "admin">>, <<>>, "getUserByIdAdmin"),
       Route("GET", <<"me">>, <<"protect">>, "getCurrentUserProfile"),
       Route("PUT", <<"me">>, <<"protect">>, "updateUserProfile"),
       Route("PUT", <<"change-password">>, <<"protect">>, "changePassword"),
       Route("GET", <<"organizations">>, <<"protect">>, "getUserOrganizations") >>

\* The routes of the facility router
FacilityRoutes ==
    << Route("POST", <<>>, <<"protect", "checkPermission">>, "createFacility"),
       Route("GET", <<>>, <<>>, "getAllFacilities"),
       Route("GET", <<":id">>, <<>>, "getFacilityById"),
       Route("PUT", <<":id">>, <<"protect", "checkPermission">>, "updateFacility"),
       Route("DELETE", <<":id">>, <<"protect", "checkPermission">>, "deleteFacility") >>

\* A segment of a route path that is a parameter
IsParam(segment) == segment \in {":userId", ":id"}

\* Express matches a request against a route: same method, same number of
\* segments, each equal to the route's unless the route's is a parameter
Matches(route, method, path) ==
    /\ route.method = method
    /\ Len(route.path) = Len(path)
    /\ \A i \in 1..Len(path) : IsParam(route.path[i]) \/ route.path[i] = path[i]

\* The first route of the router that matches, or none
Dispatch(routes, method, path) ==
    LET S == { i \in 1..Len(routes) : Matches(routes[i], method, path) }
    IN  IF S = {} THEN Route(method, path, <<>>, "") ELSE routes[First(S)]

\* The requests sent to the two routers
UserRequests ==
    { <<"GET", <<"admin">>>>, <<"GET", <<"7", "admin">>>>, <<"GET", <<"me">>>>,
      <<"PUT", <<"me">>>>, <<"PUT", <<"change-password">>>>,
      <<"GET", <<"organizations">>>>, <<"PUT", <<"admin">>>> }

FacilityRequests ==
    { <<"POST", <<>>>>, <<"GET", <<>>>>, <<"GET", <<"9">>>>, <<"PUT", <<"9">>>>,
      <<"DELETE", <<"9">>>> }

\* The session token of a request, as the protect middleware finds it
Sessions == {"missing", "invalid", "expired", "valid"}

\* Where a request goes after the middleware it has passed
Forward(r, r2) ==
    IF r2.chain = <<>> THEN Await(r, r2, "handler")
    ELSE Await(r, [r2 EXCEPT !.chain = Tail(r2.chain)], Head(r2.chain))

\* A request arrives at a router and is dispatched to a route
route(routes, requests) ==
    /\ Receive
    /\ \E q \in requests, session \in Sessions :
         LET found == Dispatch(routes, q[1], q[2])
             r == [NewReq(found.handler) EXCEPT
                      !.method = q[1], !.path = q[2], !.session = session,
                      !.chain = found.chain]
         IN  IF found.handler = ""
             THEN ErrorResponse(r, r, "Not Found", "", 404)
             ELSE Forward(r, r)
    /\ UNCHANGED <<users, tokens, adminGrants, now, nextTok>>

userRouter == route(UserRoutes, UserRequests)

facilityRouter == route(FacilityRoutes, FacilityRequests)

\* The protect middleware: a valid session token attaches the identity and
\* lets the request on; a missing, invalid or expired one is answered 401
protect ==
    /\ Resume
    /\ \E r \in inflight :
         /\ r.pc = "protect"
         /\ IF r.session = "valid"
            THEN Forward(r, [r EXCEPT !.authenticated = TRUE, !.id = 1])
            ELSE ErrorResponse(r, r, "Not authorized to access this route", "", 401)
    /\ UNCHANGED <<users, tokens, adminGrants, now, nextTok>>

\* The checkPermission middleware: the permission lookup grants or denies
checkPermission ==
    /\ Resume
    /\ \E r \in inflight, granted \in BOOLEAN :
         /\ r.pc = "checkPermission"
         /\ IF granted
            THEN Forward(r, [r EXCEPT !.access = "granted"])
            ELSE ErrorResponse(r, [r EXCEPT !.access = "denied"],
                               "Not authorized to perform this action", "", 403)
    /\ UNCHANGED <<users, tokens, adminGrants, now, nextTok>>

\* The handler of the route runs and answers
handler ==
    /\ Resume
    /\ \E r \in inflight :
         /\ r.pc = "handler"
         /\ Respond(r, [r EXCEPT !.cause = "handler_ran"], 200, "", "", {}, {})
    /\ UNCHANGED <<users, tokens, adminGrants, now, nextTok>>

-----------------------------------------------------------------------------
(* The clock *)

Tick ==
    /\ now < MaxTime
    /\ now' = now + 1
    /\ UNCHANGED <<users, tokens, adminGrants, nextTok, nextReq, budget, inflight, responses>>

-----------------------------------------------------------------------------

InitStore ==
    /\ users = <<>>
    /\ tokens = {}
    /\ adminGrants = {}
    /\ now = 1
    /\ nextTok = 1
    /\ nextReq = 0
    /\ inflight = {}
    /\ responses = {}

Init == InitStore /\ budget = MaxRequests

RegisterNext ==
    \/ register
    \/ register_findOne
    \/ register_create
    \/ register_sendVerificationEmail

LoginNext ==
    \/ login
    \/ login_findOne
    \/ login_matchPassword

AdminLoginNext ==
    \/ adminLogin
    \/ adminLogin_findOne
    \/ adminLogin_matchPassword
    \/ adminLogin_checkAdminAccess
    \/ handleAssignRole

GetMeNext ==
    \/ getMe
    \/ getMe_findById
    \/ getMe_checkAdminAccess
    \/ getMe_checkUserRoleInOrganization

ForgotPasswordNext ==
    \/ forgotPassword
    \/ forgotPassword_findUser
    \/ forgotPassword_findToken
    \/ forgotPassword_deleteOne
    \/ forgotPassword_sendPasswordResetEmail

VerifyEmailNext ==
    \/ verifyEmail
    \/ verifyEmail_findById
    \/ verifyEmail_save

ResendNext ==
    \/ resendVerificationEmail
    \/ resendVerificationEmail_findOne
    \/ resendVerificationEmail_sendVerificationEmail

Next ==
    \/ RegisterNext
    \/ LoginNext
    \/ AdminLoginNext
    \/ logout
    \/ GetMeNext
    \/ ForgotPasswordNext
    \/ VerifyEmailNext
    \/ ResendNext
    \/ Tick

Spec == Init /\ [][Next]_vars

-----------------------------------------------------------------------------
(* Specifications of parts of the API, with more requests *)

\* Registrations only
InitRegister == InitStore /\ budget = MaxRegister

SpecRegister == InitRegister /\ [][RegisterNext]_vars

\* Registrations and logins
NextLogin == RegisterNext \/ LoginNext

InitLogin == InitStore /\ budget = MaxLogin

SpecLogin == InitLogin /\ [][NextLogin]_vars

\* Registrations, role assignments and admin logins
NextAdminLogin == RegisterNext \/ AdminLoginNext

InitAdminLogin == InitStore /\ budget = MaxAdminLogin

SpecAdminLogin == InitAdminLogin /\ [][NextAdminLogin]_vars

\* Registrations and logouts
NextLogout == RegisterNext \/ logout

InitLogout == InitStore /\ budget = MaxLogout

SpecLogout == InitLogout /\ [][NextLogout]_vars

\* The operations that answer with a user: register, login, adminLogin, getMe
NextSession == RegisterNext \/ LoginNext \/ AdminLoginNext \/ GetMeNext

InitSession == InitStore /\ budget = MaxSession

SpecSession == InitSession /\ [][NextSession]_vars

\* Registrations and email verifications, with the clock
NextVerify == RegisterNext \/ VerifyEmailNext \/ Tick

InitVerify == InitStore /\ budget = MaxVerify

SpecVerify == InitVerify /\ [][NextVerify]_vars

\* Registrations and password-reset requests
NextForgot == RegisterNext \/ ForgotPasswordNext

InitForgot == InitStore /\ budget = MaxForgot

SpecForgot == InitForgot /\ [][NextForgot]_vars

\* The operations that write to the store before a 2xx answer
NextPersist == RegisterNext \/ VerifyEmailNext \/ ForgotPasswordNext

\* The store after one completed registration of "a@t.c": the user is stored,
\* unverified, with the verification token of the mail pending
InitRegistered ==
    /\ users = << [ NewUser(1, <<"F">>, <<"L">>, EmailA, <<"p">>, "user") EXCEPT
                       !.verificationToken = 1,
                       !.verificationTokenExpires = 1 + VerificationTTL ] >>
    /\ tokens = {}
    /\ adminGrants = {}
    /\ now = 1
    /\ nextTok = 2
    /\ nextReq = 0
    /\ inflight = {}
    /\ responses = {}

InitPersist == InitRegistered /\ budget = MaxPersist

SpecPersist == InitPersist /\ [][NextPersist]_vars

\* All the operations of the controller, after one registration
InitLifecycle == InitRegistered /\ budget = MaxLifecycle

SpecLifecycle == InitLifecycle /\ [][Next]_vars

\* The users router and the facility router
NextRoutes == userRouter \/ facilityRouter \/ protect \/ checkPermission \/ handler

InitRoutes == InitStore /\ budget = MaxRoutes

SpecRoutes == InitRoutes /\ [][NextRoutes]_vars

-----------------------------------------------------------------------------
(* Properties *)

Of(op) == { x \in responses : x.op = op }

CookiesNamed(x, name) == { c \in x.cookies : c.name = name }

\* What the client sees of a response
Visible(x) ==
    [ status |-> x.status, message |-> x.message, detail |-> x.detail,
      cookies |-> x.cookies, data |-> x.data ]

\* The request passed the validation of register
WellFormedRegister(r) ==
    /\ r.first_name # <<>> /\ r.last_name # <<>> /\ r.password # <<>>
    /\ isEmail(r.email)

\* C1: a well-formed register request that arrives while the store holds a user
\* whose email equals the request's ignoring letter case is answered 400
\* "Email already registered" and creates no user.
C1_DuplicateEmailRejected ==
    \A x \in Of("register") :
        (WellFormedRegister(x.req) /\ x.req.dup) =>
            /\ x.status = 400
            /\ x.message = "Email already registered"
            /\ x.req.wr.create = "none"
            /\ x.req.user._id = 0

\* A registration of " A@t.c" (the body that names a role) was refused while
\* "a@t.c", registered without a role, was the only user stored
C1_Witness ==
    \E x \in Of("register") :
        /\ x.req.dup /\ x.status = 400 /\ x.message = "Email already registered"
        /\ x.req.role = "admin"
        /\ Len(users) = 1 /\ users[1].role = "user"

\* C7: no two stored users have emails that are equal ignoring letter case,
\* whatever the interleaving of the lookups and creations of register requests.
C7_EmailUnique ==
    \A i, j \in 1..Len(users) :
        CollationEqual(users[i].email, users[j].email) => i = j

\* Two registrations of one address both passed the lookup; the second creation
\* was refused by the index
C7_Witness ==
    \E x \in Of("register") :
        /\ ~x.req.dup /\ x.req.cause = "duplicate_key"
        /\ \E i \in 1..Len(users) : CollationEqual(users[i].email, x.req.email)

LoginFailures == { x \in Of("login") : x.req.cause \in {"no_user", "bad_password"} }

\* C2: a login whose email matches no user and a login whose password does not
\* match get the same response: 401, "Invalid credentials", no cookie.
C2_UniformLoginFailure ==
    \A x, y \in LoginFailures :
        /\ Visible(x) = Visible(y)
        /\ x.status = 401
        /\ x.message = "Invalid credentials"
        /\ x.detail = ""
        /\ x.cookies = {}

\* Both failures have happened
C2_Witness ==
    \E x, y \in LoginFailures :
        /\ x.req.cause = "no_user"
        /\ y.req.cause = "bad_password" /\ y.req.user._id # 0

\* C4: adminLogin answers 200 or sets admin_token only when the password
\* matched and checkAdminAccess returned true for the user found; with a
\* matching password and checkAdminAccess false it answers 403 and sets neither
\* admin_token nor token.
C4_AdminLoginGated ==
    \A x \in Of("adminLogin") :
        /\ (x.status = 200 \/ CookiesNamed(x, "admin_token") # {}) =>
              /\ x.req.matched
              /\ matchPassword(x.req.password, x.req.user)
              /\ x.req.access = "granted"
              /\ x.req.user._id \in adminGrants
        /\ (x.req.matched /\ x.req.access = "denied") =>
              /\ x.status = 403
              /\ CookiesNamed(x, "admin_token") = {}
              /\ CookiesNamed(x, "token") = {}

\* A user with the right password and without the permission was refused
C4_Witness ==
    \E x \in Of("adminLogin") :
        /\ x.req.matched /\ x.req.access = "denied" /\ x.status = 403
        /\ x.req.user._id \notin adminGrants

\* C5: every logout is answered 200 and sets token, admin_token and org_token to
\* the empty value with an expiry at the epoch, whatever cookies the request
\* carried.
C5_LogoutClearsAll ==
    \A x \in Of("logout") :
        /\ x.status = 200
        /\ \A n \in CookieNames :
              /\ CookiesNamed(x, n) # {}
              /\ \A c \in CookiesNamed(x, n) : c.value = <<>> /\ c.expires = "epoch"

\* A logout of a signed-in user that carried only the token cookie, and one
\* that carried no cookie at all
C5_Witness ==
    /\ \E x \in Of("logout") : x.req.cookies = {"token"} /\ x.req.id # 0
    /\ \E x \in Of("logout") : x.req.cookies = {} /\ x.req.id = 0

SecretFields ==
    { "password", "verificationToken", "verificationTokenExpires",
      "resetPasswordToken", "resetPasswordExpires" }

\* C6: no response of register, login, adminLogin or getMe carries the password
\* hash, the verification token or its expiry, or a reset-token field.
C6_NoSecretInResponse ==
    \A x \in Of("register") \cup Of("login") \cup Of("adminLogin") \cup Of("getMe") :
        \A p \in x.data : p[1] \notin SecretFields

\* C3: of the verify-email requests that carry one token and user id at most
\* one is answered 200, and a verify-email request that arrives when the user
\* is verified is answered 400.
C3_TokenAcceptedOnce ==
    /\ \A x, y \in Of("verifyEmail") :
          (x.status = 200 /\ y.status = 200 /\ x.req.token = y.req.token
             /\ x.req.id = y.req.id) => x.rid = y.rid
    /\ \A x \in Of("verifyEmail") : x.req.wasVerified => x.status = 400

\* C8: at most one reset Token document exists per user id.
C8_OneResetTokenPerUser ==
    \A t1, t2 \in tokens : t1.userId = t2.userId => t1 = t2

MailFailures ==
    { x \in Of("forgotPassword") : x.req.cause \in {"mail_refused", "mail_rejected"} }

\* C9: when sending the reset email fails, forgotPassword answers 500 with one
\* message for every cause, none of the error's own message in it.
C9_GenericFailureMessage ==
    \A x, y \in MailFailures :
        /\ x.status = 500
        /\ x.detail = ""
        /\ x.message = y.message /\ x.detail = y.detail

Settled(r) == \A w \in DOMAIN r.wr : r.wr[w] \in {"none", "done"}

\* C10: register, verifyEmail and forgotPassword answer 2xx only when every
\* store write of the request has completed: the user is stored, the verified
\* flag is saved, the old reset token is gone; no write is pending or failed.
C10_PersistBefore2xx ==
    \A x \in Of("register") \cup Of("verifyEmail") \cup Of("forgotPassword") :
        x.status \in {200, 201} =>
            /\ Settled(x.req)
            /\ x.op = "register" =>
                  /\ x.req.wr.create = "done"
                  /\ x.req.user._id \in 1..Len(users)
                  /\ users[x.req.user._id].email = x.req.email
            /\ x.op = "verifyEmail" =>
                  /\ x.req.wr.save = "done"
                  /\ users[x.req.id].isVerified
            /\ x.op = "forgotPassword" =>
                  /\ x.req.wr.issue = "done"
                  /\ x.req.resetToken._id # 0 =>
                        /\ x.req.wr.delete = "done"
                        /\ x.req.resetToken \notin tokens

\* A password-reset request that deleted an older token was answered 200
\* The state SpecPersist starts in is what one registration leaves
RegisteredReached ==
    /\ users = << [ NewUser(1, <<"F">>, <<"L">>, EmailA, <<"p">>, "user") EXCEPT
                       !.verificationToken = 1,
                       !.verificationTokenExpires = 1 + VerificationTTL ] >>
    /\ tokens = {} /\ adminGrants = {} /\ now = 1 /\ nextTok = 2 /\ inflight = {}

C10_Witness ==
    \E x \in Of("forgotPassword") :
        /\ x.status = 200 /\ x.req.resetToken._id # 0 /\ x.req.wr.delete = "done"

\* The handlers of the users router, and the handlers of the facility router
\* that create, update or delete
GuardedHandlers ==
    { "getUsersAdmin", "getUserByIdAdmin", "getCurrentUserProfile", "updateUserProfile",
      "changePassword", "getUserOrganizations",
      "createFacility", "updateFacility", "deleteFacility" }

\* C11: a handler of the users router, or a mutating handler of the facility
\* router, runs only for a request whose session token protect accepted.
C11_HandlersGuarded ==
    \A x \in responses :
        (x.op \in GuardedHandlers /\ x.req.cause = "handler_ran") =>
            (x.req.authenticated /\ x.req.session = "valid")

\* C12: a register request that is not answered 201 leaves no user of its own
\* in the store: the store holds the records it held before the request.
C12_RegisterAllOrNothing ==
    \A x \in Of("register") :
        x.status # 201 =>
            /\ x.req.wr.create # "done"
            /\ ~\E i \in 1..Len(users) : users[i]._id = x.req.user._id

\* C13: every user that register stored has role "user".
C13_RegisteredRoleIsUser ==
    \A i \in 1..Len(users) : users[i].role = "user"

\* The responses that a step records
Answered == responses' \ responses

\* C14: in every step of any interleaving of the eight operations, a user who
\* is verified stays verified; a verifyEmail request that is answered 400 or
\* 404 has written nothing and its answer leaves every user as it was; and a
\* resendVerificationEmail request for a user who is already verified is
\* answered 400 "Email is already verified" with no verification token issued.
C14_VerificationMonotonic ==
    [][ /\ \A i \in 1..Len(users) :
             users[i].isVerified => (i <= Len(users') /\ users'[i].isVerified)
        /\ \A x \in Answered :
             (x.op = "verifyEmail" /\ x.status \in {400, 404}) =>
                 (x.req.wr = NoWrites /\ users' = users)
        /\ \A x \in Answered :
             (x.op = "resendVerificationEmail"
                /\ (x.req.wasVerified \/ x.req.user.isVerified)) =>
                 /\ x.status = 400 /\ x.message = "Email is already verified"
                 /\ x.req.wr.issue = "none"
                 /\ users' = users /\ nextTok' = nextTok ]_vars

\* The user of the first registration was verified, and a resend that arrived
\* afterwards for the address was refused with 400 and issued no token
C14_Witness ==
    /\ users[1].isVerified
    /\ \E x \in Of("resendVerificationEmail") :
         x.req.wasVerified /\ x.status = 400 /\ x.req.wr.issue = "none"

====
